---- MODULE Spec2Model ----
(***************************************************************************)
(* Model of wineceptor.py: the upward search for the wine prefix           *)
(* (find_wine_prefix), the reading of the prefix-scope and executable-     *)
(* scope ini files, and the commands main() hands to os.system.            *)
(*                                                                         *)
(* Paths are records [abs, comps]: "/d/d/x.exe" is                         *)
(* [abs |-> TRUE, comps |-> <<"d", "d", "x.exe">>], the empty string is    *)
(* [abs |-> FALSE, comps |-> <<>>].  The filesystem is a chain of          *)
(* directories /, /d, /d/d, ... without symbolic links, so                 *)
(* os.path.realpath only makes a path absolute.  main() is modelled from   *)
(* line 17 on, i.e. with an executable argument given.                     *)
(***************************************************************************)
EXTENDS Integers, Sequences, FiniteSets, TLC

VARIABLES
    cwd,                  \* the process's working directory (absolute path)
    executable,           \* args[1], as typed by the user
    home,                 \* os.path.expanduser("~")
    tree,                 \* tree[k]: the entries of the chain directory of depth k
    max_search_depth,     \* find_wine_prefix's parameter
    directory,            \* find_wine_prefix's local
    current_depth,        \* find_wine_prefix's local
    examined,             \* the directories is_prefix_directory was called on
    pc,                   \* position in main() / find_wine_prefix()
    exc,                  \* the exception in flight ("none" when there is none)
    prefix,               \* main's local: the located prefix
    wine_path,            \* run_executable's keyword arguments, as evaluated
    prefix_env,
    exe_env,
    execution_parameters,
    command,              \* the launch command run_executable formatted
    executed,             \* the os.system calls so far, with their exit status
    opens,                \* the open() calls on ini files so far
    errLines,             \* number of "ERROR: ..." lines printed
    caught,               \* number of times main's except clause ran
    exitCode              \* the process's exit status once it ended, else -2

vars == <<cwd, executable, home, tree, max_search_depth, directory, current_depth,
          examined, pc, exc, prefix, wine_path, prefix_env, exe_env,
          execution_parameters, command, executed, opens, errLines, caught, exitCode>>

envVars == <<cwd, executable, home, tree>>

\* deepest directory an executable is placed in
MaxTree == 2
\* largest max_search_depth find_wine_prefix is called with on its own
MaxSearch == 3

\* the chain has one more directory below the deepest executable directory
TreeTop == MaxTree + 1

INI_SUFFIX == ".wineceptor.ini"
INI_BASENAME == "wineceptor.ini"
DEFAULT_WINE_PATH == "wine"
\* main: find_wine_prefix(executable, max_search_depth=15)
MainSearchDepth == 15

ExeName == "x.exe"

----------------------------------------------------------------------------
(* os.path *)

EmptyPath == [abs |-> FALSE, comps |-> <<>>]

Root == [abs |-> TRUE, comps |-> <<>>]

\* the chain directory of depth k: "/" followed by k components "d"
ChainDir(k) == [abs |-> TRUE, comps |-> [i \in 1..k |-> "d"]]

\* str + INI_SUFFIX on names
Concat(name, suffix) ==
    IF name = ExeName /\ suffix = INI_SUFFIX THEN "x.exe.wineceptor.ini" ELSE name

\* path string + suffix: the suffix is appended to the last component
AddSuffix(p, suffix) ==
    [p EXCEPT !.comps = [i \in 1..Len(p.comps) |->
        IF i = Len(p.comps) THEN Concat(p.comps[i], suffix) ELSE p.comps[i]]]

\* a bare name as a relative path
NamePath(name) == [abs |-> FALSE, comps |-> <<name>>]

get_directory(file_path) ==
    [file_path EXCEPT !.comps =
        IF Len(file_path.comps) = 0 THEN <<>>
        ELSE SubSeq(file_path.comps, 1, Len(file_path.comps) - 1)]

get_basename(file_path) ==
    IF Len(file_path.comps) = 0 THEN "" ELSE file_path.comps[Len(file_path.comps)]

join_file_path(pre, filename) ==
    IF filename.abs THEN filename
    ELSE IF pre = EmptyPath THEN filename
    ELSE [abs |-> pre.abs, comps |-> pre.comps \o filename.comps]

\* what the kernel does with a relative path
Absolute(p) == IF p.abs THEN p ELSE [abs |-> TRUE, comps |-> cwd.comps \o p.comps]

get_real_path(p) == Absolute(p)

is_home_directory_never(d) == FALSE

is_home_directory(d) == d = home

----------------------------------------------------------------------------
(* the filesystem: os.listdir, os.path.isfile, os.path.isdir, open *)

NoFile == [state |-> "none", items |-> <<>>]

IsChainDir(a) ==
    /\ a.abs
    /\ Len(a.comps) <= TreeTop
    /\ \A i \in 1..Len(a.comps) : a.comps[i] = "d"

EntryNames == {"drive_c", ".update-timestamp", INI_BASENAME, Concat(ExeName, INI_SUFFIX), "d"}

\* the kind of the entry `name` of the chain directory of depth k
EntryKind(k, name) ==
    CASE name = "drive_c" -> tree[k].drive_c
      [] name = ".update-timestamp" -> tree[k].ts
      [] name = INI_BASENAME -> IF tree[k].ini.state = "none" THEN "none" ELSE "file"
      [] name = Concat(ExeName, INI_SUFFIX) ->
            IF tree[k].exe_ini.state = "none" THEN "none" ELSE "file"
      [] name = "d" -> IF k < TreeTop THEN "dir" ELSE "none"
      [] OTHER -> "none"

\* os.listdir(d) raises OSError for "" and for what is no directory
CanList(d) == d # EmptyPath /\ IsChainDir(Absolute(d))

get_files_in_directory(d) ==
    {n \in EntryNames : EntryKind(Len(Absolute(d).comps), n) # "none"}

KindOf(path) ==
    LET a == Absolute(path)
    IN  IF path = EmptyPath THEN "none"
        ELSE IF IsChainDir(a) THEN "dir"
        ELSE IF IsChainDir(get_directory(a))
             THEN EntryKind(Len(a.comps) - 1, get_basename(a))
        ELSE "none"

is_file(path) == KindOf(path) = "file"

is_directory(path) == KindOf(path) = "dir"

\* open(path): the ini file found there, and whether open() succeeds
FileAt(path) ==
    LET a == Absolute(path)
        k == Len(a.comps) - 1
    IN  IF ~is_file(path) THEN NoFile
        ELSE IF get_basename(a) = INI_BASENAME THEN tree[k].ini
        ELSE IF get_basename(a) = Concat(ExeName, INI_SUFFIX) THEN tree[k].exe_ini
        ELSE NoFile

CanOpen(path) == FileAt(path).state \in {"ok", "unparsable"}

OpenLog(by, path) == <<[by |-> by, path |-> Absolute(path), ok |-> CanOpen(path)]>>

----------------------------------------------------------------------------
(* configparser.RawConfigParser *)

\* str.lower on option names, the parser's default optionxform
Lower(k) ==
    CASE k = "Foo" -> "foo"
      [] k = "Path" -> "path"
      [] OTHER -> k

\* optionxform = str
KeepCase(k) == k

IsLower(xform) == xform = "lower"

XForm(xform, k) == IF IsLower(xform) THEN Lower(k) ELSE KeepCase(k)

HasSection(file, section) == \E i \in 1..Len(file.items) : file.items[i].section = section

\* config.items(section): the section's (key, value) pairs in declaration order
ConfigItems(file, section, xform) ==
    LET own == SelectSeq(file.items, LAMBDA it : it.section = section)
    IN  [i \in 1..Len(own) |-> [key |-> XForm(xform, own[i].key), value |-> own[i].value]]

Values(its) == [i \in 1..Len(its) |-> its[i].value]

\* "{key}={value}".format(...)
Format(key, value) == <<key, "=", value>>

----------------------------------------------------------------------------
(* results of calls: the value returned or the exception raised, and the
   open() calls made on the way *)

Ret(v, log) == [exc |-> "none", val |-> v, opened |-> log]

Raise(e, log) == [exc |-> e, val |-> <<>>, opened |-> log]

is_prefix_directory_either(d) ==
    LET files == {f \in get_files_in_directory(d) : is_file(join_file_path(d, NamePath(f)))}
        directories == {f \in get_files_in_directory(d) :
                            is_directory(join_file_path(d, NamePath(f)))}
    IN  "drive_c" \in directories \/ ".update-timestamp" \in files

is_prefix_directory(d) ==
    LET files == {f \in get_files_in_directory(d) : is_file(join_file_path(d, NamePath(f)))}
        directories == {f \in get_files_in_directory(d) :
                            is_directory(join_file_path(d, NamePath(f)))}
    IN  "drive_c" \in directories /\ ".update-timestamp" \in files

read_wine_path(file, log) ==
    IF file.state = "unparsable" THEN Raise("ParsingError", log)
    ELSE LET found == SelectSeq(ConfigItems(file, "WINE", "lower"),
                                LAMBDA it : it.key = Lower("path"))
         IN  IF found = <<>> THEN Ret(DEFAULT_WINE_PATH, log)
             ELSE Ret(found[1].value, log)

find_wine_path(pre) ==
    IF ~CanList(pre) THEN Raise("OSError", <<>>)
    ELSE IF INI_BASENAME \notin get_files_in_directory(pre) THEN Ret(DEFAULT_WINE_PATH, <<>>)
    ELSE LET path == join_file_path(pre, NamePath(INI_BASENAME))
             log == OpenLog("find_wine_path", path)
         IN  IF ~CanOpen(path) THEN Raise("OSError", log)
             ELSE read_wine_path(FileAt(path), log)

read_env_variables(file, log) ==
    IF file.state = "unparsable" THEN Raise("ParsingError", log)
    ELSE IF ~HasSection(file, "ENV") THEN Ret(<<>>, log)
    ELSE LET its == ConfigItems(file, "ENV", "str")
         IN  Ret([i \in 1..Len(its) |-> Format(its[i].key, its[i].value)], log)

_find_env_variables(dir, env_filename, by) ==
    IF ~CanList(dir) THEN Raise("OSError", <<>>)
    ELSE IF get_basename(env_filename) \notin get_files_in_directory(dir)
         THEN Raise("LookupError", <<>>)
    ELSE LET path == join_file_path(dir, env_filename)
             log == OpenLog(by, path)
         IN  IF ~CanOpen(path) THEN Raise("OSError", log)
             ELSE read_env_variables(FileAt(path), log)

find_prefix_env_variables(pre) ==
    LET r == _find_env_variables(pre, NamePath(INI_BASENAME), "find_prefix_env_variables")
    IN  IF r.exc = "LookupError" THEN Ret(<<>>, r.opened) ELSE r

find_executable_env_variables(filename) ==
    LET r == _find_env_variables(get_directory(filename), AddSuffix(filename, INI_SUFFIX),
                                 "find_executable_env_variables")
    IN  IF r.exc = "LookupError" THEN Ret(<<>>, r.opened) ELSE r

\* the launch parameters, joined with " " in the code, are kept as the list of
\* the joined values
read_execution_parameters(file, log) ==
    IF file.state = "unparsable" THEN Raise("ParsingError", log)
    ELSE IF ~HasSection(file, "EXEC_PARAMS") THEN Ret(<<>>, log)
    ELSE Ret(Values(ConfigItems(file, "EXEC_PARAMS", "lower")), log)

find_execution_parameters(exe) ==
    LET dir == get_directory(exe)
        ini_filename == AddSuffix(exe, INI_SUFFIX)
        log == OpenLog("find_execution_parameters", ini_filename)
    IN  IF ~CanList(dir) THEN Raise("OSError", <<>>)
        ELSE IF get_basename(ini_filename) \notin get_files_in_directory(dir)
             THEN Ret(<<>>, <<>>)
        ELSE IF ~CanOpen(ini_filename) THEN Raise("OSError", log)
        ELSE read_execution_parameters(FileAt(ini_filename), log)

\* the commands run_commands_before_executable is about to run
before_commands(exe) ==
    LET dir == get_directory(exe)
        ini_filename == AddSuffix(exe, INI_SUFFIX)
        log == OpenLog("run_commands_before_executable", ini_filename)
    IN  IF ~CanList(dir) THEN Raise("OSError", <<>>)
        ELSE IF get_basename(ini_filename) \notin get_files_in_directory(dir)
             THEN Ret(<<>>, <<>>)
        ELSE IF ~CanOpen(ini_filename) THEN Raise("OSError", log)
        ELSE IF FileAt(ini_filename).state = "unparsable" THEN Raise("ParsingError", log)
        ELSE IF ~HasSection(FileAt(ini_filename), "BEFORE") THEN Ret(<<>>, log)
        ELSE Ret(Values(ConfigItems(FileAt(ini_filename), "BEFORE", "lower")), log)

\* the commands run_commands_after_executable is about to run
after_commands(exe) ==
    LET dir == get_directory(exe)
        ini_filename == AddSuffix(exe, INI_SUFFIX)
        log == OpenLog("run_commands_after_executable", ini_filename)
    IN  IF ~CanList(dir) THEN Raise("OSError", <<>>)
        ELSE IF get_basename(ini_filename) \notin get_files_in_directory(dir)
             THEN Ret(<<>>, <<>>)
        ELSE IF ~CanOpen(ini_filename) THEN Raise("OSError", log)
        ELSE IF FileAt(ini_filename).state = "unparsable" THEN Raise("ParsingError", log)
        ELSE IF ~HasSection(FileAt(ini_filename), "AFTER") THEN Ret(<<>>, log)
        ELSE Ret(Values(ConfigItems(FileAt(ini_filename), "AFTER", "lower")), log)

----------------------------------------------------------------------------
(* the inputs: working directory, argument, home directory, filesystem *)

Item(section, key, value) == [section |-> section, key |-> key, value |-> value]

Ini(items) == [state |-> "ok", items |-> items]

Unreadable == [state |-> "unreadable", items |-> <<>>]

Unparsable == [state |-> "unparsable", items |-> <<>>]

PrefixInis ==
    { NoFile, Unreadable, Unparsable,
      Ini(<<Item("WINE", "Path", "/opt/wine/bin/wine"), Item("ENV", "Foo", "1"),
            Item("ENV", "bar", "2")>>),
      Ini(<<Item("ENV", "Foo", "1")>>) }

ExeInis ==
    { NoFile, Unreadable, Unparsable,
      Ini(<<Item("BEFORE", "1", "cmd1"), Item("ENV", "Foo", "9"),
            Item("EXEC_PARAMS", "1", "-a"), Item("EXEC_PARAMS", "2", "-b"),
            Item("AFTER", "1", "cmd2")>>),
      Ini(<<Item("BEFORE", "1", "cmd1"), Item("BEFORE", "2", "cmd3"),
            Item("AFTER", "1", "cmd2")>>),
      Ini(<<Item("ENV", "Baz", "3")>>) }

\* what may lie at dirname(executable)/executable.wineceptor.ini
OtherInis == { NoFile, Ini(<<Item("ENV", "Other", "7")>>) }

Kinds == {"none", "file", "dir"}

Markers == [drive_c : Kinds, ts : Kinds]

\* a prefix root, and the four ways of falling one marker short of it
MarkerChoices ==
    { m \in Markers : \/ m.drive_c = "dir" /\ m.ts = "file"
                      \/ m.drive_c = "dir" /\ m.ts # "file"
                      \/ m.drive_c # "dir" /\ m.ts = "file" }

NoMarkers == [drive_c |-> "none", ts |-> "none"]

PrefixMarkers == [drive_c |-> "dir", ts |-> "file"]

Forms == {"abs", "rel", "bare"}

\* the working directory and the argument for an executable in the chain
\* directory of depth e, typed as an absolute path, as d/x.exe or as x.exe
CwdOf(form, e) ==
    CASE form = "abs" -> Root
      [] form = "rel" -> ChainDir(e - 1)
      [] form = "bare" -> ChainDir(e)

ArgOf(form, e) ==
    CASE form = "abs" -> join_file_path(ChainDir(e), NamePath(ExeName))
      [] form = "rel" -> [abs |-> FALSE, comps |-> <<"d", ExeName>>]
      [] form = "bare" -> NamePath(ExeName)

Homes == {ChainDir(h) : h \in 0..MaxTree} \cup {[abs |-> TRUE, comps |-> <<"u">>]}

NoCommand == [prefix |-> EmptyPath, env |-> <<>>, wine |-> "", exe |-> EmptyPath, params |-> <<>>]

InitLocals ==
    /\ directory = EmptyPath
    /\ current_depth = 0
    /\ examined = <<>>
    /\ pc = "find_entry"
    /\ exc = "none"
    /\ prefix = EmptyPath
    /\ wine_path = ""
    /\ prefix_env = <<>>
    /\ exe_env = <<>>
    /\ execution_parameters = <<>>
    /\ command = NoCommand
    /\ executed = <<>>
    /\ opens = <<>>
    /\ errLines = 0
    /\ caught = 0
    /\ exitCode = -2

InitEnv(form, e) ==
    /\ form = "rel" => e >= 1
    /\ cwd = CwdOf(form, e)
    /\ executable = ArgOf(form, e)
    /\ home \in Homes

\* main() on a filesystem with at most one marked directory, which may hold
\* wineceptor.ini
Init ==
    /\ \E form \in Forms, e \in 0..MaxTree, pd \in -1..MaxTree :
       \E pini \in PrefixInis, eini \in ExeInis, oini \in OtherInis :
          /\ InitEnv(form, e)
          /\ tree = [k \in 0..TreeTop |->
                       [drive_c |-> IF k = pd THEN "dir" ELSE "none",
                        ts |-> IF k = pd THEN "file" ELSE "none",
                        ini |-> IF k = pd THEN pini ELSE NoFile,
                        exe_ini |-> IF k = e THEN eini
                                    ELSE IF k = e + 1 THEN oini ELSE NoFile]]
    /\ max_search_depth = MainSearchDepth
    /\ InitLocals

\* find_wine_prefix alone, for every depth and every marking of the chain
InitFind ==
    /\ \E form \in Forms, e \in 0..MaxTree, marks \in [0..MaxTree -> MarkerChoices] :
          /\ InitEnv(form, e)
          /\ tree = [k \in 0..TreeTop |->
                       [drive_c |-> IF k <= MaxTree THEN marks[k].drive_c ELSE "none",
                        ts |-> IF k <= MaxTree THEN marks[k].ts ELSE "none",
                        ini |-> NoFile,
                        exe_ini |-> NoFile]]
    /\ max_search_depth \in 0..MaxSearch
    /\ InitLocals

----------------------------------------------------------------------------
(* find_wine_prefix *)

LoopCondition == current_depth < max_search_depth /\ ~is_home_directory(directory)

findVars == <<max_search_depth, directory, current_depth, examined>>

mainVars == <<wine_path, prefix_env, exe_env, execution_parameters, command, executed,
              opens, errLines, caught, exitCode>>

\* lines 37-41
FindEnter ==
    /\ pc = "find_entry"
    /\ IF max_search_depth < 1
       THEN /\ pc' = "raised"
            /\ exc' = "ValueError"
            /\ UNCHANGED <<directory, current_depth>>
       ELSE /\ directory' = get_directory(get_real_path(executable))
            /\ current_depth' = 0
            /\ pc' = "find_loop"
            /\ exc' = exc
    /\ UNCHANGED <<envVars, max_search_depth, examined, prefix, mainVars>>

\* one iteration of the loop, lines 42-47
FindTest ==
    /\ pc = "find_loop"
    /\ LoopCondition
    /\ examined' = Append(examined, directory)
    /\ IF is_prefix_directory(directory)
       THEN /\ prefix' = directory
            /\ pc' = "find_returned"
            /\ UNCHANGED <<directory, current_depth>>
       ELSE /\ current_depth' = current_depth + 1
            /\ directory' = get_directory(directory)
            /\ UNCHANGED <<prefix, pc>>
    /\ UNCHANGED <<envVars, max_search_depth, exc, mainVars>>

\* the loop's else branch, lines 48-49
FindExhaust ==
    /\ pc = "find_loop"
    /\ ~LoopCondition
    /\ pc' = "raised"
    /\ exc' = "LookupError"
    /\ UNCHANGED <<envVars, findVars, prefix, mainVars>>

NextFind == FindEnter \/ FindTest \/ FindExhaust

SpecFind == InitFind /\ [][NextFind]_vars

----------------------------------------------------------------------------
(* main, lines 19-33 *)

\* the exit statuses os.system may report
ExitStatuses == {0, 1}

\* the exception classes of the program; all derive from Exception
ExceptionClasses == {"ValueError", "LookupError", "OSError", "ParsingError"}

HookRuns(kind, commands, rcs) ==
    [i \in 1..Len(commands) |-> [kind |-> kind, text |-> commands[i], rc |-> rcs[i]]]

\* line 22: run_commands_before_executable(executable)
RunBefore ==
    /\ pc = "find_returned"
    /\ LET r == before_commands(executable)
       IN  /\ opens' = opens \o r.opened
           /\ IF r.exc # "none"
              THEN /\ exc' = r.exc
                   /\ pc' = "raised"
                   /\ UNCHANGED executed
              ELSE /\ \E rcs \in [1..Len(r.val) -> ExitStatuses] :
                          executed' = executed \o HookRuns("before", r.val, rcs)
                   /\ pc' = "wine_path"
                   /\ UNCHANGED exc
    /\ UNCHANGED <<envVars, findVars, prefix, wine_path, prefix_env, exe_env,
                   execution_parameters, command, errLines, caught, exitCode>>

\* line 26: wine_path=find_wine_path(prefix)
EvalWinePath ==
    /\ pc = "wine_path"
    /\ LET r == find_wine_path(prefix)
       IN  /\ opens' = opens \o r.opened
           /\ IF r.exc # "none"
              THEN exc' = r.exc /\ pc' = "raised" /\ UNCHANGED wine_path
              ELSE wine_path' = r.val /\ pc' = "prefix_env" /\ UNCHANGED exc
    /\ UNCHANGED <<envVars, findVars, prefix, prefix_env, exe_env, execution_parameters,
                   command, executed, errLines, caught, exitCode>>

\* line 27, left operand: find_prefix_env_variables(prefix)
EvalPrefixEnv ==
    /\ pc = "prefix_env"
    /\ LET r == find_prefix_env_variables(prefix)
       IN  /\ opens' = opens \o r.opened
           /\ IF r.exc # "none"
              THEN exc' = r.exc /\ pc' = "raised" /\ UNCHANGED prefix_env
              ELSE prefix_env' = r.val /\ pc' = "exe_env" /\ UNCHANGED exc
    /\ UNCHANGED <<envVars, findVars, prefix, wine_path, exe_env, execution_parameters,
                   command, executed, errLines, caught, exitCode>>

\* line 27, right operand: find_executable_env_variables(executable)
EvalExeEnv ==
    /\ pc = "exe_env"
    /\ LET r == find_executable_env_variables(executable)
       IN  /\ opens' = opens \o r.opened
           /\ IF r.exc # "none"
              THEN exc' = r.exc /\ pc' = "raised" /\ UNCHANGED exe_env
              ELSE exe_env' = r.val /\ pc' = "exec_params" /\ UNCHANGED exc
    /\ UNCHANGED <<envVars, findVars, prefix, wine_path, prefix_env, execution_parameters,
                   command, executed, errLines, caught, exitCode>>

\* line 28: execution_parameters=find_execution_parameters(executable)
EvalParameters ==
    /\ pc = "exec_params"
    /\ LET r == find_execution_parameters(executable)
       IN  /\ opens' = opens \o r.opened
           /\ IF r.exc # "none"
              THEN exc' = r.exc /\ pc' = "raised" /\ UNCHANGED execution_parameters
              ELSE execution_parameters' = r.val /\ pc' = "run" /\ UNCHANGED exc
    /\ UNCHANGED <<envVars, findVars, prefix, wine_path, prefix_env, exe_env,
                   command, executed, errLines, caught, exitCode>>

\* the command line run_executable formats, lines 190-195
LaunchCommand(exe, pre, env_variables, wine, params) ==
    [prefix |-> pre, env |-> env_variables, wine |-> wine, exe |-> exe, params |-> params]

\* lines 23-29: run_executable(...)
RunExecutable ==
    /\ pc = "run"
    /\ command' = LaunchCommand(executable, prefix, prefix_env \o exe_env, wine_path,
                                execution_parameters)
    /\ \E rc \in ExitStatuses :
          executed' = Append(executed, [kind |-> "launch", text |-> "wine start", rc |-> rc])
    /\ pc' = "after"
    /\ UNCHANGED <<envVars, findVars, prefix, wine_path, prefix_env, exe_env,
                   execution_parameters, opens, exc, errLines, caught, exitCode>>

\* line 30: run_commands_after_executable(executable); main then returns
RunAfter ==
    /\ pc = "after"
    /\ LET r == after_commands(executable)
       IN  /\ opens' = opens \o r.opened
           /\ IF r.exc # "none"
              THEN /\ exc' = r.exc
                   /\ pc' = "raised"
                   /\ UNCHANGED <<executed, exitCode>>
              ELSE /\ \E rcs \in [1..Len(r.val) -> ExitStatuses] :
                          executed' = executed \o HookRuns("after", r.val, rcs)
                   /\ pc' = "done"
                   /\ exitCode' = 0
                   /\ UNCHANGED exc
    /\ UNCHANGED <<envVars, findVars, prefix, wine_path, prefix_env, exe_env,
                   execution_parameters, command, errLines, caught>>

CatchesLookupErrorOnly(e) == e = "LookupError"

\* line 31: except Exception
Catches(e) == e \in ExceptionClasses

\* lines 31-33; an exception the clause does not catch ends the process with
\* a traceback and status 1
Except ==
    /\ pc = "raised"
    /\ IF Catches(exc)
       THEN /\ errLines' = errLines + 1
            /\ caught' = caught + 1
            /\ exitCode' = -1
            /\ pc' = "failed"
       ELSE /\ exitCode' = 1
            /\ pc' = "crashed"
            /\ UNCHANGED <<errLines, caught>>
    /\ exc' = "none"
    /\ UNCHANGED <<envVars, findVars, prefix, wine_path, prefix_env, exe_env,
                   execution_parameters, command, executed, opens>>

Next ==
    \/ FindEnter
    \/ FindTest
    \/ FindExhaust
    \/ RunBefore
    \/ EvalWinePath
    \/ EvalPrefixEnv
    \/ EvalExeEnv
    \/ EvalParameters
    \/ RunExecutable
    \/ RunAfter
    \/ Except

Spec == Init /\ [][Next]_vars

----------------------------------------------------------------------------
(* what the claims speak of, stated on the filesystem itself *)

\* depth of the directory the executable lies in
StartDepth ==
    IF executable.abs THEN Len(executable.comps) - 1
    ELSE Len(cwd.comps) + Len(executable.comps) - 1

\* depth of the directory reached after s upward steps ("/" is its own parent)
AncestorDepth(s) == IF StartDepth > s THEN StartDepth - s ELSE 0

\* a directory with child directory drive_c and child file .update-timestamp
Qualifies(k) == tree[k].drive_c = "dir" /\ tree[k].ts = "file"

HomeAt(s) == home = ChainDir(AncestorDepth(s))

\* the steps at which a prefix root lies, within the depth and before home
Candidates ==
    {s \in 0..(max_search_depth - 1) :
        Qualifies(AncestorDepth(s)) /\ \A t \in 0..s : ~HomeAt(t)}

Nearest == CHOOSE s \in Candidates : \A t \in Candidates : s <= t

ExeScopeFile == tree[StartDepth].exe_ini

ExeScopePath ==
    [abs |-> TRUE, comps |-> [i \in 1..StartDepth |-> "d"] \o <<"x.exe.wineceptor.ini">>]

PrefixScopeFile == tree[Len(prefix.comps)].ini

SectionEntries(file, section) == SelectSeq(file.items, LAMBDA it : it.section = section)

EnvEntries(file) ==
    [i \in 1..Len(SectionEntries(file, "ENV")) |->
        <<SectionEntries(file, "ENV")[i].key, "=", SectionEntries(file, "ENV")[i].value>>]

SectionValues(file, section) ==
    [i \in 1..Len(SectionEntries(file, section)) |-> SectionEntries(file, section)[i].value]

ExeReaders ==
    {"find_executable_env_variables", "find_execution_parameters",
     "run_commands_before_executable", "run_commands_after_executable"}

Located == pc \notin {"find_entry", "find_loop"} /\ prefix # EmptyPath

----------------------------------------------------------------------------
(* the claims *)

\* C1: find_wine_prefix returns the nearest prefix root among the executable's
\* directory and its ancestors that is reached in fewer than max_search_depth
\* steps and before the home directory; when there is none it raises
\* LookupError (for max_search_depth >= 1) and returns nothing.
C1_NearestPrefixRoot ==
    /\ pc = "find_returned" =>
          /\ Candidates # {}
          /\ prefix = ChainDir(AncestorDepth(Nearest))
    /\ (pc = "raised" /\ max_search_depth >= 1) =>
          /\ Candidates = {}
          /\ exc = "LookupError"

\* a nearer and a farther ancestor both qualify, and the nearer one, which is
\* not the executable's own directory, was returned
C1_Witness ==
    /\ pc = "find_returned"
    /\ Cardinality(Candidates) >= 2
    /\ Nearest >= 1
    /\ prefix = ChainDir(AncestorDepth(Nearest))

\* the search ran out of depth below a prefix root
C1_WitnessNotFound ==
    /\ pc = "raised"
    /\ exc = "LookupError"
    /\ \E k \in 0..StartDepth : Qualifies(k) /\ home # ChainDir(k)
    /\ \A t \in 0..StartDepth : ~HomeAt(t)

\* C2: find_wine_prefix never tests and never returns the home directory; when
\* the walk reaches the home directory without a prior match it raises
\* LookupError even if the home directory has both markers, and no directory
\* above the home directory is examined.
C2_HomeIsNeverACandidate ==
    /\ \A i \in 1..Len(examined) : examined[i] # home
    /\ pc = "find_returned" => prefix # home
    /\ \A s \in 0..(max_search_depth - 1) :
          ( /\ pc \in {"find_returned", "raised"}
            /\ HomeAt(s)
            /\ \A t \in 0..(s - 1) : ~Qualifies(AncestorDepth(t)) )
          => (pc = "raised" /\ exc = "LookupError")
    /\ \A h \in 0..StartDepth :
          home = ChainDir(h) =>
             \A i \in 1..Len(examined) : Len(examined[i].comps) > h

\* the walk tested a directory, then stopped at a home directory that has both
\* markers, with depth to spare
C2_Witness ==
    /\ pc = "raised"
    /\ exc = "LookupError"
    /\ directory = home
    /\ Qualifies(Len(home.comps))
    /\ Len(examined) >= 1
    /\ current_depth < max_search_depth

\* C3: in a run that completes, the commands handed to the shell are the
\* BEFORE values in file order, one launch command, one synchronization
\* command, then the AFTER values in file order.
C3_CommandSequence ==
    pc = "done" =>
       LET b == SectionValues(ExeScopeFile, "BEFORE")
           a == SectionValues(ExeScopeFile, "AFTER")
       IN  /\ Len(executed) = Len(b) + 2 + Len(a)
           /\ \A i \in 1..Len(b) : executed[i].kind = "before" /\ executed[i].text = b[i]
           /\ executed[Len(b) + 1].kind = "launch"
           /\ executed[Len(b) + 2].kind = "sync"
           /\ \A i \in 1..Len(a) :
                 /\ executed[Len(b) + 2 + i].kind = "after"
                 /\ executed[Len(b) + 2 + i].text = a[i]

\* C4: once a command exits non-zero, no later command is executed.
C4_FailFast ==
    \A i \in 1..Len(executed) : \A j \in 1..Len(executed) :
       i < j => executed[i].rc = 0

\* C5: when a prefix is located, a missing wineceptor.ini and/or a missing
\* <executable>.wineceptor.ini produces no error: the runtime binary is
\* "wine", the corresponding env list and the launch parameters are empty, no
\* hook runs, and the launch command is executed.
C5_MissingFilesAreNoError ==
    /\ (Located /\ PrefixScopeFile = NoFile /\ ExeScopeFile = NoFile) =>
          pc \notin {"raised", "failed", "crashed"}
    /\ (pc = "done" /\ PrefixScopeFile = NoFile) =>
          command.wine = DEFAULT_WINE_PATH /\ prefix_env = <<>>
    /\ (pc = "done" /\ ExeScopeFile = NoFile) =>
          /\ exe_env = <<>>
          /\ execution_parameters = <<>>
          /\ Len(executed) = 1
          /\ executed[1].kind = "launch"

\* C6: the env assignments of the launch command are the prefix-scope ENV
\* entries in file order followed by the executable-scope ENV entries in file
\* order, each KEY=VALUE with the key's casing unchanged and no entry dropped.
C6_EnvAssignments ==
    command # NoCommand =>
       command.env = EnvEntries(PrefixScopeFile) \o EnvEntries(ExeScopeFile)

\* C7: every failure of prefix discovery or configuration loading is caught
\* once in main, prints one ERROR line and ends the process with a non-zero
\* exit code; a run without such a failure ends with exit code 0; no failure
\* escapes main.
C7_FailuresCaughtOnce ==
    /\ pc # "crashed"
    /\ errLines <= 1
    /\ caught <= 1
    /\ pc = "failed" => (errLines = 1 /\ caught = 1 /\ exitCode # 0 /\ exitCode # -2)
    /\ pc = "done" => (errLines = 0 /\ caught = 0 /\ exitCode = 0)
    /\ pc \notin {"failed", "done"} => (errLines = 0 /\ caught = 0 /\ exitCode = -2)

\* an ini file was opened, the failure that followed was caught and reported
C7_Witness ==
    /\ pc = "failed"
    /\ errLines = 1
    /\ exitCode = -1
    /\ Len(opens) >= 1

\* C8: no command is executed before the prefix is located and wine path,
\* both env lists, the launch parameters and the hook lists are resolved; a run
\* that ends with an error has executed no command.
C8_NothingRunsBeforeResolution ==
    /\ executed # <<>> => pc \in {"run", "after", "done"}
    /\ pc = "failed" => executed = <<>>

\* C9: all four executable-scope extractions read <executable>.wineceptor.ini
\* in the executable's directory; when it exists (and is readable) none looks
\* for it elsewhere or fails to open it.
C9_SameExecutableFile ==
    ExeScopeFile.state \in {"ok", "unparsable"} =>
       \A i \in 1..Len(opens) :
          opens[i].by \in ExeReaders => (opens[i].path = ExeScopePath /\ opens[i].ok)

\* C10: a run opens configuration files at most twice.
C10_AtMostTwoReads ==
    Cardinality({i \in 1..Len(opens) : opens[i].ok}) <= 2

====
